---- MODULE Spec2Model ----
(***************************************************************************)
(* Model of the MCP <-> LLM bridge (src/src/mcp_llm_bridge): the catalog   *)
(* adapter, the tool invoker, the conversation loop and the response       *)
(* normaliser, as one state machine.                                       *)
(*                                                                         *)
(* Python strings are sequences of tokens: a tool name is the sequence of  *)
(* its characters, a message text is a sequence of opaque words, and a     *)
(* formatted string (an f-string) is the concatenation of its pieces.      *)
(* An optional value is a record [kind, v]: kind "absent" is a missing     *)
(* attribute or key, "none" is Python's None, "str" a string, "list" a     *)
(* list.                                                                   *)
(***************************************************************************)
EXTENDS Integers, Sequences, FiniteSets, TLC

\* ------------------------------------------------------------------ bounds
MaxMessages == 2   \* process_message calls in a session
MaxRounds == 2     \* tool rounds in a session
MaxCalls == 2      \* tool calls in one model turn
MaxTools == 2      \* tool descriptors the provider lists

\* ------------------------------------------------------------ value shapes
Absent == [kind |-> "absent", v |-> <<>>]
None == [kind |-> "none", v |-> <<>>]
Some(s) == [kind |-> "str", v |-> s]
List(l) == [kind |-> "list", v |-> l]

hasattr(x) == x.kind # "absent"

\* Python truthiness of an optional string or list: None and empty are falsy.
Truthy(x) == x.kind \in {"str", "list"} /\ x.v # <<>>

\* ------------------------------------------------------- catalog adapter
\* str.lower() on one character
Lower(c) ==
  CASE c = "F" -> "f"
    [] c = "U" -> "u"
    [] c = "G" -> "g"
    [] OTHER -> c

\* .replace("-", "_").replace(" ", "_") on one character
ReplaceSeparators(c) == IF c \in {"-", " "} THEN "_" ELSE c

SanitizeKeepCase(name) == [i \in 1..Len(name) |-> ReplaceSeparators(name[i])]

\* MCPLLMBridge._sanitize_tool_name
Sanitize(name) == [i \in 1..Len(name) |-> Lower(ReplaceSeparators(name[i]))]

DictSetDefault(d, k, v) ==
  [x \in (DOMAIN d) \cup {k} |-> IF x \in DOMAIN d THEN d[x] ELSE v]

\* dict item assignment d[k] = v
DictSet(d, k, v) == [x \in (DOMAIN d) \cup {k} |-> IF x = k THEN v ELSE d[x]]

DictAfterPop(d, k) == [x \in (DOMAIN d) \ {k} |-> d[x]]

\* the dict after d.get(k): a lookup leaves it as it was
DictAfterGet(d, k) == d

\* dict.get(k): None when k is no key
DictGet(d, k) == IF k \in DOMAIN d THEN Some(d[k]) ELSE None

EmptyDict == [x \in {} |-> <<>>]

\* the default schema substituted when a tool has no inputSchema attribute
DefaultSchema == <<"object", "no properties", "nothing required">>

ToolSchema(tool) ==
  IF hasattr(tool.inputSchema) THEN tool.inputSchema.v ELSE DefaultSchema

AcceptedNameOnly(tool) == hasattr(tool.name)

\* the test that admits a descriptor into the catalog
Accepted(tool) == hasattr(tool.name) /\ hasattr(tool.description)

OpenAITool(tool) ==
  [type |-> "function",
   name |-> Sanitize(tool.name.v),
   description |-> tool.description,
   parameters |-> ToolSchema(tool)]

\* The loop of _convert_mcp_tools_to_openai_format from tool i on: acc is
\* openai_tools so far, m is self.tool_name_mapping so far.  tool.name.replace
\* raises AttributeError when the name is None; the mapping keeps what the
\* earlier tools wrote.
RECURSIVE ConvertFrom(_, _, _, _)
ConvertFrom(tools_list, i, acc, m) ==
  IF i > Len(tools_list)
  THEN [raised |-> FALSE, openai_tools |-> acc, mapping |-> m]
  ELSE LET tool == tools_list[i] IN
       IF Accepted(tool)
       THEN IF tool.name.kind = "none"
            THEN [raised |-> TRUE, openai_tools |-> acc, mapping |-> m]
            ELSE ConvertFrom(tools_list, i + 1,
                             Append(acc, OpenAITool(tool)),
                             DictSet(m, Sanitize(tool.name.v), tool.name.v))
       ELSE ConvertFrom(tools_list, i + 1, acc, m)

ConvertMcpTools(mcp_tools, m) == ConvertFrom(mcp_tools, 1, <<>>, m)

\* ---------------------------------------------------- response normaliser
\* LLMResponse.__init__ over completion.choices[0]: a completion is
\* [finish_reason, content, tool_calls], the last two optional values of the
\* message.
IsToolCallByList(stop_reason, tool_calls) == Truthy(tool_calls)

IsToolCall(stop_reason, tool_calls) == stop_reason = "tool_calls"

ContentRaw(content) == content

ContentOrEmpty(content) == IF content.kind # "none" THEN content ELSE Some(<<>>)

LLMResponse(completion) ==
  [stop_reason |-> completion.finish_reason,
   is_tool_call |-> IsToolCall(completion.finish_reason, completion.tool_calls),
   content |-> ContentOrEmpty(completion.content),
   tool_calls |-> IF hasattr(completion.tool_calls)
                  THEN completion.tool_calls ELSE None]

\* LLMResponse.get_message
GetMessage(r) ==
  [role |-> "assistant", content |-> r.content,
   tool_calls |-> r.tool_calls, tool_call_id |-> Absent]

UserMessage(prompt) ==
  [role |-> "user", content |-> Some(prompt),
   tool_calls |-> Absent, tool_call_id |-> Absent]

ToolMessage(result) ==
  [role |-> "tool", content |-> Some(result.output),
   tool_calls |-> Absent, tool_call_id |-> Some(result.tool_call_id)]

Restarted(history, new_messages) == new_messages

\* self.messages.append, for each of the new messages in turn
Extended(history, new_messages) == history \o new_messages

ToolMessagesOfSuccesses(tool_results) ==
  LET ok == SelectSeq(tool_results,
                      LAMBDA r : r.output = <<>> \/ r.output[1] # "Error: ") IN
  [i \in 1..Len(ok) |-> ToolMessage(ok[i])]

ToolMessagesButLast(tool_results) ==
  [i \in 1..(Len(tool_results) - 1) |-> ToolMessage(tool_results[i])]

\* the messages LLMClient.invoke appends for its tool_results
ToolMessages(tool_results) ==
  [i \in 1..Len(tool_results) |-> ToolMessage(tool_results[i])]

\* ------------------------------------------------------------ tool invoker
\* json.loads: a text parses when it is a braced object
JsonLoads(text) ==
  IF Len(text) >= 2 /\ text[1] = "{" /\ text[Len(text)] = "}"
  THEN [raised |-> FALSE, message |-> <<>>]
  ELSE [raised |-> TRUE, message |-> <<"Expecting value">>]

\* " ".join(texts)
RECURSIVE JoinWithSpace(_)
JoinWithSpace(texts) ==
  IF texts = <<>> THEN <<>>
  ELSE IF Len(texts) = 1 THEN texts[1]
  ELSE texts[1] \o <<" ">> \o JoinWithSpace(Tail(texts))

\* the blocks of result.content that have a text attribute
RECURSIVE TextsOf(_)
TextsOf(blocks) ==
  IF blocks = <<>> THEN <<>>
  ELSE IF hasattr(blocks[1]) THEN <<blocks[1].v>> \o TextsOf(Tail(blocks))
  ELSE TextsOf(Tail(blocks))

\* the output text of a provider result: a plain string, a CallToolResult
\* with a content list, or anything else through str()
FormatResult(result) ==
  IF result.kind = "str" THEN result.text
  ELSE IF result.kind = "blocks" THEN JoinWithSpace(TextsOf(result.content))
  ELSE result.repr

ToolResponse(tool_call, output) ==
  [tool_call_id |-> tool_call.id, output |-> output]

ErrorOutputNoMessage(message) == <<"Error: ">>

\* the except branch of _handle_tool_calls: f"Error: {str(e)}"
ErrorOutput(message) == <<"Error: ">> \o message

\* f"Unknown tool: {openai_name}"
UnknownToolMessage(openai_name) == <<"Unknown tool", ": ">> \o openai_name

NotConnectedMessage == <<"Not connected to MCP server">>

\* a lookup that falls back to the model-facing name
ResolveCallUnparsed(tool_call, mapping, connected) ==
  LET mcp_name == DictGet(mapping, tool_call.name)
  IN IF ~Truthy(mcp_name)
     THEN [dispatch |-> FALSE, mcp_name |-> <<>>,
           output |-> ErrorOutput(UnknownToolMessage(tool_call.name))]
     ELSE IF ~connected
     THEN [dispatch |-> FALSE, mcp_name |-> <<>>,
           output |-> ErrorOutput(NotConnectedMessage)]
     ELSE [dispatch |-> TRUE, mcp_name |-> mcp_name.v, output |-> <<>>]

ResolveCallByName(tool_call, mapping, connected) ==
  LET parsed == JsonLoads(tool_call.arguments)
      mcp_name == IF tool_call.name \in DOMAIN mapping
                  THEN mapping[tool_call.name] ELSE tool_call.name
  IN IF parsed.raised
     THEN [dispatch |-> FALSE, mcp_name |-> <<>>,
           output |-> ErrorOutput(parsed.message)]
     ELSE IF ~connected
     THEN [dispatch |-> FALSE, mcp_name |-> <<>>,
           output |-> ErrorOutput(NotConnectedMessage)]
     ELSE [dispatch |-> TRUE, mcp_name |-> mcp_name, output |-> <<>>]

\* One tool call up to the provider dispatch: name resolution, then argument
\* parsing, then MCPClient.call_tool's session test.  The result is either
\* the error text of the exception raised on the way, or the provider name
\* to dispatch under.
ResolveCall(tool_call, mapping, connected) ==
  LET mcp_name == DictGet(mapping, tool_call.name)
      parsed == JsonLoads(tool_call.arguments)
  IN IF ~Truthy(mcp_name)
     THEN [dispatch |-> FALSE, mcp_name |-> <<>>,
           output |-> ErrorOutput(UnknownToolMessage(tool_call.name))]
     ELSE IF parsed.raised
     THEN [dispatch |-> FALSE, mcp_name |-> <<>>,
           output |-> ErrorOutput(parsed.message)]
     ELSE IF ~connected
     THEN [dispatch |-> FALSE, mcp_name |-> <<>>,
           output |-> ErrorOutput(NotConnectedMessage)]
     ELSE [dispatch |-> TRUE, mcp_name |-> mcp_name.v, output |-> <<>>]

\* --------------------------------------------------------- conversation loop
LoopUntilText(r) ==
  r.is_tool_call /\ Truthy(r.tool_calls) /\ ~Truthy(r.content)

\* the while test of process_message together with its break
LoopContinues(r) == r.is_tool_call /\ Truthy(r.tool_calls)

PropagateError(message) == [kind |-> "raised", v |-> Some(message)]

\* the except branch of process_message
ErrorReturn(message) ==
  [kind |-> "value", v |-> Some(<<"Error processing message: ">> \o message)]

\* return response.content
FinalReturn(r) == [kind |-> "value", v |-> r.content]

NotReturned == [kind |-> "pending", v |-> None]

\* -------------------------------------------------------------- input sets
Prompts == {<<"What's the weather?">>}
Contents == {None, Some(<<"It's 18C in Paris.">>)}
FinishReasons == {"stop", "tool_calls"}
ModelErrors == {<<"Connection error.">>}
ProviderErrors == {<<"network down">>}
CallNames == {<<"f", "_", "u">>, <<"g">>}
ArgumentTexts == {<<"{", "}">>, <<"{">>}
ProviderResults ==
  { [kind |-> "str", text |-> <<"temp 18">>, content |-> <<>>, repr |-> <<>>],
    [kind |-> "blocks", text |-> <<>>,
     content |-> <<Some(<<"temp">>), Absent, Some(<<"18">>)>>, repr |-> <<>>],
    [kind |-> "other", text |-> <<>>, content |-> <<>>,
     repr |-> <<"{'temp': 18}">>] }

ToolNames == {<<"F", " ", "U">>, <<"F", "-", "U">>, <<"G">>}
\* descriptors with or without a name and a description, and one tool that
\* declares no input schema
Descriptors ==
  [name : {Absent} \cup {Some(n) : n \in ToolNames},
   description : {Absent, Some(<<"fetches">>)},
   inputSchema : {Some(<<"object", "url">>)}]
    \cup {[name |-> Some(<<"G">>), description |-> Some(<<"fetches">>),
           inputSchema |-> Absent]}

\* what the provider lists when the catalog is not the subject of the run
StandardCatalog ==
  << [name |-> Some(<<"F", " ", "U">>), description |-> Some(<<"fetches">>),
      inputSchema |-> Some(<<"object", "url">>)] >>

SeqsUpTo(S, n) == UNION {[1..k -> S] : k \in 0..n}

\* tools = 0: the provider lists the standard catalog
ProviderCatalogs(n) ==
  IF n = 0 THEN {StandardCatalog} ELSE SeqsUpTo(Descriptors, n)

\* descriptors of a provider that does not validate them: the name and the
\* description are present, but either may be None or the empty string
UntypedDescriptors ==
  [name : {None, Some(<<>>), Some(<<"G">>)},
   description : {None, Some(<<>>), Some(<<"fetches">>)},
   inputSchema : {Some(<<"object", "url">>)}]

UntypedCatalogs(n) == SeqsUpTo(UntypedDescriptors, n)

\* Each run takes one dimension to its bound and keeps the others at their
\* least value that still exercises the loop.
Scenarios ==
  { [messages |-> MaxMessages, rounds |-> 1, calls |-> 1, tools |-> 0],
    [messages |-> 1, rounds |-> MaxRounds, calls |-> 1, tools |-> 0],
    [messages |-> 1, rounds |-> 1, calls |-> MaxCalls, tools |-> 0],
    [messages |-> 1, rounds |-> 1, calls |-> 1, tools |-> MaxTools] }

\* the id the model endpoint gives the n-th tool call it issues
CallId(n) == <<"call_", ToString(n)>>

\* the tool-call lists a completion may carry: shapes are (name, arguments)
\* pairs, ids are fresh
CallShapes == CallNames \X ArgumentTexts

ToolCallList(shapes, issued) ==
  [i \in 1..Len(shapes) |->
     [id |-> CallId(issued + i), name |-> shapes[i][1],
      arguments |-> shapes[i][2]]]

ToolCallsValues(n, issued) ==
  {None} \cup {List(ToolCallList(sh, issued)) : sh \in SeqsUpTo(CallShapes, n)}

\* What the endpoint may answer: a finished or tool-calling completion whose
\* message has a tool_calls attribute (None or a list), or a completion cut
\* by max_tokens whose message has no tool_calls attribute.
Completions(n, issued) ==
  [finish_reason : FinishReasons, content : Contents,
   tool_calls : ToolCallsValues(n, issued)]
    \cup [finish_reason : {"length"}, content : Contents,
          tool_calls : {Absent}]

NoResponse == LLMResponse([finish_reason |-> "stop", content |-> None,
                           tool_calls |-> None])

\* -------------------------------------------------------------------- state
VARIABLES
  pc,                 \* "new", "idle", "model", "tools", "provider"
  session,            \* MCPClient.session is set
  init_result,        \* what initialize() returned
  available_tools,    \* MCPLLMBridge.available_tools
  tool_name_mapping,  \* MCPLLMBridge.tool_name_mapping
  tools,              \* LLMClient.tools
  messages,           \* LLMClient.messages
  completion,         \* the raw completion of the last model invocation
  response,           \* process_message's response
  idx,                \* position of _handle_tool_calls in tool_calls
  tool_responses,     \* _handle_tool_calls's tool_responses
  returned,           \* what the last process_message gave its caller
  budget,             \* what the run may still do
  log                 \* history of the run, for the properties

vars == <<pc, session, init_result, available_tools, tool_name_mapping, tools,
          messages, completion, response, idx, tool_responses, returned,
          budget, log>>

EmptyLog ==
  [init |-> "not called", \* the step of initialize that failed, or "none"
   issued |-> 0,          \* tool calls the model has issued in the session
   batches |-> <<>>,      \* per handled batch: [calls, results]
   resolved |-> <<>>,     \* ids of the calls that got a result, in order
   dispatched |-> <<>>,   \* provider dispatches: [id, target, mcp_name]
   failure |-> None,      \* message of the model failure of this message
   provider_error |-> None,  \* message callTool raised in this message
   provider_errors |-> 0, \* callTool failures in the session
   responses |-> 0,       \* completions received for this message
   rounds_done |-> 0,     \* tool rounds completed for this message
   served |-> 0]          \* process_message calls that have returned

Init ==
  /\ pc = "new"
  /\ session = FALSE
  /\ init_result = "not called"
  /\ available_tools = <<>>
  /\ tool_name_mapping = EmptyDict
  /\ tools = <<>>
  /\ messages = <<>>
  /\ completion = [finish_reason |-> "stop", content |-> None,
                   tool_calls |-> None]
  /\ response = NoResponse
  /\ idx = 0
  /\ tool_responses = <<>>
  /\ returned = NotReturned
  /\ budget \in Scenarios
  /\ log = EmptyLog


\* ---------------------------------------------------------------- initialize
InitializeNoCatch(connect, listed, catalog, mapping, llm_tools) ==
  LET conv == ConvertMcpTools(catalog, mapping) IN
  [session |-> connect # "no process",
   result |-> IF connect = "ok" /\ listed /\ ~conv.raised
              THEN "True" ELSE "raised",
   available_tools |-> IF connect = "ok" /\ listed THEN catalog ELSE <<>>,
   mapping |-> IF connect = "ok" /\ listed THEN conv.mapping ELSE mapping,
   tools |-> IF connect = "ok" /\ listed /\ ~conv.raised
             THEN conv.openai_tools ELSE llm_tools]

\* MCPLLMBridge.initialize on a fresh bridge.  connect fails before the
\* session is set ("no process") or in session.initialize() ("no handshake"),
\* list_tools fails, or the conversion raises; each is caught and gives False.
InitializeOutcome(connect, listed, catalog, mapping, llm_tools) ==
  LET conv == ConvertMcpTools(catalog, mapping) IN
  [session |-> connect # "no process",
   result |-> IF connect = "ok" /\ listed /\ ~conv.raised
              THEN "True" ELSE "False",
   available_tools |-> IF connect = "ok" /\ listed THEN catalog ELSE <<>>,
   mapping |-> IF connect = "ok" /\ listed THEN conv.mapping ELSE mapping,
   tools |-> IF connect = "ok" /\ listed /\ ~conv.raised
             THEN conv.openai_tools ELSE llm_tools]

\* the step of initialize that raised, "none" when all succeeded
FailedStep(connect, listed, catalog, mapping) ==
  IF connect # "ok" THEN "connect"
  ELSE IF ~listed THEN "list_tools"
  ELSE IF ConvertMcpTools(catalog, mapping).raised THEN "convert"
  ELSE "none"

InitializeFrom(catalogs) ==
  /\ pc = "new"
  /\ \E connect \in {"ok", "no process", "no handshake"}, listed \in BOOLEAN,
        catalog \in catalogs :
       LET out == InitializeOutcome(connect, listed, catalog,
                                    tool_name_mapping, tools) IN
       /\ session' = out.session
       /\ init_result' = out.result
       /\ available_tools' = out.available_tools
       /\ tool_name_mapping' = out.mapping
       /\ tools' = out.tools
       /\ log' = [log EXCEPT !.init = FailedStep(connect, listed, catalog,
                                                 tool_name_mapping)]
  /\ pc' = "idle"
  /\ UNCHANGED <<messages, completion, response, idx, tool_responses,
                 returned, budget>>

Initialize == InitializeFrom(ProviderCatalogs(budget.tools))

\* initialize against a provider that lists untyped descriptors
InitializeUntyped == InitializeFrom(UntypedCatalogs(budget.tools))

\* ------------------------------------------------------------ process_message
\* process_message up to the first completion request: invoke_with_prompt
\* appends the user message and invoke([]) calls the endpoint.
ProcessMessage(prompt) ==
  /\ pc = "idle"
  /\ budget.messages > 0
  /\ messages' = Extended(messages, <<UserMessage(prompt)>>)
  /\ pc' = "model"
  /\ returned' = NotReturned
  /\ budget' = [budget EXCEPT !.messages = @ - 1]
  /\ log' = [log EXCEPT !.failure = None, !.provider_error = None,
                        !.responses = 0, !.rounds_done = 0]
  /\ UNCHANGED <<session, init_result, available_tools, tool_name_mapping,
                 tools, completion, response, idx, tool_responses>>

\* The endpoint answers: invoke wraps the completion and appends the
\* assistant message; process_message tests the loop and either starts
\* _handle_tool_calls or returns the content.
ModelReturns(c) ==
  LET r == LLMResponse(c)
      n == IF c.tool_calls.kind = "list" THEN Len(c.tool_calls.v) ELSE 0
  IN
  /\ pc = "model"
  /\ LoopContinues(r) => budget.rounds > 0
  /\ completion' = c
  /\ response' = r
  /\ messages' = Extended(messages, <<GetMessage(r)>>)
  /\ IF LoopContinues(r)
     THEN /\ pc' = "tools"
          /\ idx' = 1
          /\ tool_responses' = <<>>
          /\ returned' = returned
          /\ budget' = [budget EXCEPT !.rounds = @ - 1]
          /\ log' = [log EXCEPT !.issued = @ + n, !.responses = @ + 1]
     ELSE /\ pc' = "idle"
          /\ idx' = 0
          /\ tool_responses' = <<>>
          /\ returned' = FinalReturn(r)
          /\ budget' = budget
          /\ log' = [log EXCEPT !.issued = @ + n, !.responses = @ + 1,
                                !.served = @ + 1]
  /\ UNCHANGED <<session, init_result, available_tools, tool_name_mapping,
                 tools>>

\* The endpoint call raises (connection, HTTP or API error): invoke has
\* already appended its messages, process_message catches and returns text.
ModelFails(m) ==
  /\ pc = "model"
  /\ returned' = ErrorReturn(m)
  /\ pc' = "idle"
  /\ idx' = 0
  /\ tool_responses' = <<>>
  /\ log' = [log EXCEPT !.failure = Some(m), !.served = @ + 1]
  /\ UNCHANGED <<session, init_result, available_tools, tool_name_mapping,
                 tools, messages, completion, response, budget>>

\* ---------------------------------------------------------- _handle_tool_calls
DropError(results, tool_call, message) == results

\* the except branch: the call's error text joins the results
CollectError(results, tool_call, message) ==
  Append(results, ToolResponse(tool_call, message))

\* the try branch: the formatted output joins the results
CollectResult(results, tool_call, result) ==
  Append(results, ToolResponse(tool_call, FormatResult(result)))

FirstCall == response.tool_calls.v[1]

\* the tool call the for loop of _handle_tool_calls is at
CurrentCall == response.tool_calls.v[idx]

CollectedNoReinvoke(results, l) ==
  IF idx < Len(response.tool_calls.v)
  THEN /\ idx' = idx + 1
       /\ tool_responses' = results
       /\ pc' = "tools"
       /\ messages' = messages
       /\ log' = [l EXCEPT !.resolved = Append(@, CurrentCall.id)]
  ELSE /\ idx' = 1
       /\ tool_responses' = <<>>
       /\ pc' = "tools"
       /\ messages' = messages
       /\ log' = log

\* The result of the current call is collected: the for loop moves to the next
\* call, or _handle_tool_calls returns and invoke(tool_responses) appends the
\* tool messages and calls the endpoint again.
Collected(results, l) ==
  LET l2 == [l EXCEPT !.resolved = Append(@, CurrentCall.id)] IN
  IF idx < Len(response.tool_calls.v)
  THEN /\ idx' = idx + 1
       /\ tool_responses' = results
       /\ pc' = "tools"
       /\ messages' = messages
       /\ log' = l2
  ELSE /\ idx' = 0
       /\ tool_responses' = <<>>
       /\ pc' = "model"
       /\ messages' = Extended(messages, ToolMessages(results))
       /\ log' = [l2 EXCEPT !.rounds_done = @ + 1,
                            !.batches =
                              Append(@, [calls |-> response.tool_calls.v,
                                         results |-> results])]

\* One iteration of the for loop up to the await of the provider call.
HandleToolCall ==
  /\ pc = "tools"
  /\ LET rc == ResolveCall(CurrentCall, tool_name_mapping, session) IN
     IF rc.dispatch
     THEN /\ pc' = "provider"
          /\ log' = [log EXCEPT !.dispatched =
                       Append(@, [id |-> CurrentCall.id,
                                  target |-> CurrentCall.name,
                                  mcp_name |-> rc.mcp_name])]
          /\ UNCHANGED <<idx, tool_responses, messages>>
     ELSE Collected(CollectError(tool_responses, CurrentCall, rc.output), log)
  /\ tool_name_mapping' = DictAfterGet(tool_name_mapping, CurrentCall.name)
  /\ UNCHANGED <<session, init_result, available_tools, tools, completion,
                 response, returned, budget>>

\* session.call_tool returns
ProviderReturns(result) ==
  /\ pc = "provider"
  /\ Collected(CollectResult(tool_responses, CurrentCall, result), log)
  /\ UNCHANGED <<session, init_result, available_tools, tool_name_mapping,
                 tools, completion, response, returned, budget>>

\* session.call_tool raises
ProviderRaises(m) ==
  /\ pc = "provider"
  /\ Collected(CollectError(tool_responses, CurrentCall, ErrorOutput(m)),
               [log EXCEPT !.provider_error = Some(m),
                           !.provider_errors = @ + 1])
  /\ UNCHANGED <<session, init_result, available_tools, tool_name_mapping,
                 tools, completion, response, returned, budget>>

Next ==
  \/ Initialize
  \/ \E prompt \in Prompts : ProcessMessage(prompt)
  \/ \E c \in Completions(budget.calls, log.issued) : ModelReturns(c)
  \/ \E m \in ModelErrors : ModelFails(m)
  \/ HandleToolCall
  \/ \E result \in ProviderResults : ProviderReturns(result)
  \/ \E m \in ProviderErrors : ProviderRaises(m)

Spec == Init /\ [][Next]_vars

\* The same bridge in front of a provider whose descriptors are not validated.
InitUntyped == Init /\ budget.tools = MaxTools

NextUntyped ==
  \/ InitializeUntyped
  \/ \E prompt \in Prompts : ProcessMessage(prompt)
  \/ \E c \in Completions(budget.calls, log.issued) : ModelReturns(c)
  \/ \E m \in ModelErrors : ModelFails(m)
  \/ HandleToolCall
  \/ \E result \in ProviderResults : ProviderReturns(result)
  \/ \E m \in ProviderErrors : ProviderRaises(m)

SpecUntyped == InitUntyped /\ [][NextUntyped]_vars

\* The awaits of process_message complete: the endpoint answers or fails, the
\* provider answers or fails, and the coroutine runs between them.
ModelAnswers ==
  \/ \E c \in Completions(budget.calls, log.issued) : ModelReturns(c)
  \/ \E m \in ModelErrors : ModelFails(m)

ProviderAnswers ==
  \/ \E result \in ProviderResults : ProviderReturns(result)
  \/ \E m \in ProviderErrors : ProviderRaises(m)

\* the provider lists the standard catalog
InitStandard == Init /\ budget.tools = 0

\* a step of a running process_message call; at most one of the three is
\* enabled at a time
Advance == ModelAnswers \/ HandleToolCall \/ ProviderAnswers

SpecFair == InitStandard /\ [][Next]_vars /\ WF_vars(Advance)

\* ================================================================ properties
Served == pc = "idle" /\ log.served > 0

\* the text the last completion carries, "" when it carries none
LastCompletionText ==
  IF completion.content.kind = "none" THEN <<>> ELSE completion.content.v

\* s contains sub as a contiguous substring
Contains(s, sub) ==
  \E i \in 0..(Len(s) - Len(sub)) : SubSeq(s, i + 1, i + Len(sub)) = sub

IsToolRole(msg) == msg.role = "tool"

\* the tool_call_id of every tool message of the history, in order
ToolMessageIds ==
  LET ts == SelectSeq(messages, IsToolRole)
  IN [i \in 1..Len(ts) |-> ts[i].tool_call_id.v]

IsErrorText(output) == Len(output) >= 1 /\ output[1] = "Error: "

\* C1: when no model invocation failed, process_message returns exactly the
\* content of the last completion it received (the empty string when that
\* completion has no text), that completion's message is the last of the
\* history, and every tool round requested before it was run to its end.
C1_ReturnsFinalContent ==
  (Served /\ log.failure = None) =>
    /\ returned = [kind |-> "value", v |-> Some(LastCompletionText)]
    /\ messages[Len(messages)].role = "assistant"
    /\ messages[Len(messages)].content = returned.v
    /\ log.rounds_done = log.responses - 1

C1_Witness ==
  /\ Served
  /\ log.failure = None
  /\ log.rounds_done = 2
  /\ returned.v = Some(<<"It's 18C in Paris.">>)

\* C2: process_message never raises; when a model invocation fails with
\* message m, on the first invocation or after a tool round, it returns the
\* string "Error processing message: m".
C2_ModelFailureIsReturned ==
  /\ returned.kind # "raised"
  /\ (Served /\ log.failure # None) =>
       returned = [kind |-> "value",
                   v |-> Some(<<"Error processing message: ">> \o log.failure.v)]

C2_Witness ==
  /\ Served
  /\ log.failure = Some(<<"Connection error.">>)
  /\ log.rounds_done = 1

\* C3: _handle_tool_calls returns one result per call, in call order, each
\* with the id of its call, whichever calls fail; while it runs, the results
\* collected so far are those of the calls before the current one.
C3_OneResultPerCall ==
  /\ \A b \in 1..Len(log.batches) :
       LET batch == log.batches[b] IN
       /\ Len(batch.results) = Len(batch.calls)
       /\ \A i \in 1..Len(batch.calls) :
            batch.results[i].tool_call_id = batch.calls[i].id
  /\ pc \in {"tools", "provider"} =>
       /\ Len(tool_responses) = idx - 1
       /\ \A i \in 1..Len(tool_responses) :
            tool_responses[i].tool_call_id = response.tool_calls.v[i].id

C3_Witness ==
  \E b \in 1..Len(log.batches) :
    LET batch == log.batches[b] IN
    /\ Len(batch.calls) = 2
    /\ IsErrorText(batch.results[1].output)
    /\ batch.results[2].output = <<"temp 18">>

\* C4: between loop iterations and between process_message calls, the tool
\* messages of the history are, in order, one per tool call that got a
\* result, each tagged with the id of its call.
C4_OneToolMessagePerResolvedCall ==
  pc \in {"idle", "model"} => ToolMessageIds = log.resolved

C4_Witness ==
  /\ pc = "idle"
  /\ Len(log.resolved) = 2
  /\ Len(log.batches) = 2

\* C5 as claimed: after callTool raised with message m, the string that
\* process_message returns contains m.
C5_ReturnContainsToolError ==
  (Served /\ log.provider_error # None) =>
    /\ returned.kind = "value"
    /\ Contains(returned.v.v, log.provider_error.v)

\* C5 as amended: after callTool raised with message m, process_message
\* returns a string without raising, the history holds the tool message
\* "Error: m", and what is returned is the final completion's content, or
\* the error text of a failed model invocation; the bridge is idle again and
\* serves a following message in the same way.
C5_ToolErrorFedBack ==
  /\ (Served /\ log.provider_error # None) =>
       \E i \in 1..Len(messages) :
         /\ messages[i].role = "tool"
         /\ messages[i].content = Some(<<"Error: ">> \o log.provider_error.v)
  /\ (Served /\ log.provider_errors > 0) =>
       /\ returned.kind = "value"
       /\ returned.v.kind = "str"
       /\ log.failure = None => returned.v.v = LastCompletionText
       /\ budget.messages > 0 => ENABLED (\E p \in Prompts : ProcessMessage(p))

C5_Witness ==
  /\ Served
  /\ log.served = 2
  /\ log.provider_errors = 1
  /\ log.provider_error = None
  /\ log.failure = None
  /\ returned.v = Some(<<"It's 18C in Paris.">>)

\* C6: a call whose name is no key of the mapping gets a result with its id
\* whose text contains "Unknown tool" and the name; the provider is not
\* called for it and the batch still has a result for every call.
C6_UnknownToolIsolated ==
  \A b \in 1..Len(log.batches) :
    LET batch == log.batches[b] IN
    \A i \in 1..Len(batch.calls) :
      batch.calls[i].name \notin DOMAIN tool_name_mapping =>
        /\ Len(batch.results) = Len(batch.calls)
        /\ batch.results[i].tool_call_id = batch.calls[i].id
        /\ Contains(batch.results[i].output, <<"Unknown tool">>)
        /\ Contains(batch.results[i].output, batch.calls[i].name)
        /\ \A d \in 1..Len(log.dispatched) :
             log.dispatched[d].id # batch.calls[i].id

C6_Witness ==
  \E b \in 1..Len(log.batches) :
    LET batch == log.batches[b] IN
    /\ Len(batch.calls) = 2
    /\ batch.calls[1].name \notin DOMAIN tool_name_mapping
    /\ batch.results[2].output = <<"temp 18">>
    /\ Len(log.dispatched) = 1

HasNameAndDescription(tool) ==
  tool.name.kind # "absent" /\ tool.description.kind # "absent"

\* C7 as claimed: a call targeting sanitize(n), for a tool of the catalog
\* with provider name n, is dispatched to the provider under n.
C7_NameRoundTrip ==
  \A d \in 1..Len(log.dispatched) :
    \A i \in 1..Len(available_tools) :
      (/\ HasNameAndDescription(available_tools[i])
       /\ Sanitize(available_tools[i].name.v) = log.dispatched[d].target)
        => log.dispatched[d].mcp_name = available_tools[i].name.v

\* C8: after a successful initialize the catalog holds one function entry per
\* descriptor that has a name and a description, in the provider's order, and
\* the mapping's keys and values come from those descriptors alone.
C8_CatalogOfAcceptedTools ==
  init_result = "True" =>
    LET acc == SelectSeq(available_tools, HasNameAndDescription) IN
    /\ Len(tools) = Len(acc)
    /\ \A j \in 1..Len(acc) :
         /\ tools[j].type = "function"
         /\ tools[j].name = Sanitize(acc[j].name.v)
         /\ tools[j].description = acc[j].description
    /\ DOMAIN tool_name_mapping
         = {Sanitize(acc[j].name.v) : j \in 1..Len(acc)}
    /\ \A k \in DOMAIN tool_name_mapping :
         tool_name_mapping[k] \in {acc[j].name.v : j \in 1..Len(acc)}

C8_Witness ==
  /\ init_result = "True"
  /\ Len(available_tools) = 2
  /\ available_tools[1].name = Some(<<"F", " ", "U">>)
  /\ available_tools[1].description = Absent
  /\ Len(tools) = 1
  /\ tools[1].name = <<"g">>

\* C9: initialize never raises; it returns True exactly when connect,
\* list_tools and the conversion all succeeded, False when the provider is
\* unreachable or the catalog fetch fails, and a False return leaves the
\* tool list of the LLM client as it was at construction.
C9_InitializeReportsFailure ==
  /\ init_result \in {"not called", "True", "False"}
  /\ pc # "new" =>
       /\ init_result = "True" <=> log.init = "none"
       /\ log.init \in {"connect", "list_tools"} => init_result = "False"
       /\ init_result = "False" => tools = <<>>

C9_Witness ==
  /\ init_result = "False"
  /\ log.init = "list_tools"
  /\ session
  /\ tools = <<>>

\* C10: the normalised response is a tool call exactly when the completion's
\* finish_reason is "tool_calls", whatever its content and tool-call list.
C10_IsToolCallIffFinishReason ==
  /\ response.is_tool_call <=> completion.finish_reason = "tool_calls"
  /\ response.stop_reason = completion.finish_reason

C10_Witness ==
  /\ completion.finish_reason = "stop"
  /\ Truthy(completion.tool_calls)
  /\ completion.content # None
  /\ ~response.is_tool_call
  /\ log.rounds_done = 1

\* C11 as claimed: the normalised response's tool_calls is the message's
\* tool-call list when it carries one and an empty sequence otherwise, its
\* content is the message text or the empty string, and neither is null.
C11_FieldsNeverNull ==
  log.responses > 0 =>
    /\ response.tool_calls.kind = "list"
    /\ response.tool_calls.v =
         (IF completion.tool_calls.kind = "list"
          THEN completion.tool_calls.v ELSE <<>>)
    /\ response.content = Some(LastCompletionText)

\* a descriptor with a name and a description that are non-empty strings
WellFormed(tool) == Truthy(tool.name) /\ Truthy(tool.description)

\* C12 as claimed: building the catalog never raises, whatever the provider
\* lists; an entry whose name or description is missing, None or empty is
\* left out, and the well-formed entries are converted, in order.
C12_MalformedEntriesExcluded ==
  (pc # "new" /\ log.init \in {"none", "convert"}) =>
    LET wf == SelectSeq(available_tools, WellFormed) IN
    /\ log.init = "none"
    /\ init_result = "True"
    /\ Len(tools) = Len(wf)
    /\ \A i \in 1..Len(wf) : tools[i].name = Sanitize(wf[i].name.v)

\* C13 as claimed: whenever process_message returns a result that is not an
\* error, the last response it received from the model has
\* is_tool_call = false.
C13_ReturnsOnlyWithoutToolCallFlag ==
  (Served /\ log.failure = None) => ~response.is_tool_call

\* C13: whenever process_message returns a result that is not an error, the
\* last response it received from the model does not both have
\* is_tool_call = true and carry a non-empty list of tool calls.
C13_ReturnsOnlyWithoutPendingCalls ==
  (Served /\ log.failure = None) =>
    ~(/\ response.is_tool_call
      /\ response.tool_calls.kind = "list"
      /\ Len(response.tool_calls.v) > 0)

C13_Witness ==
  /\ Served
  /\ log.failure = None
  /\ log.rounds_done = 1
  /\ response.is_tool_call
  /\ response.tool_calls = None
  /\ returned.v = Some(<<"It's 18C in Paris.">>)

\* process_message is running
Processing == pc \in {"model", "tools", "provider"}

\* the response carries tool calls the loop has to run
HasPendingCalls(r) ==
  r.is_tool_call /\ r.tool_calls.kind = "list" /\ Len(r.tool_calls.v) > 0

\* C14: when the endpoint and the provider answer every request, a
\* process_message call returns once the model gives a response without
\* pending tool calls or an invocation fails; until then it does not return,
\* however many rounds it has run: a response with pending tool calls always
\* starts a tool round, and a finished tool round always re-invokes the model.
C14_Termination ==
  /\ Processing ~> (pc = "idle")
  /\ [][(pc = "model" /\ log'.responses = log.responses + 1
           /\ HasPendingCalls(response'))
          => (pc' = "tools" /\ returned' = NotReturned)]_vars
  /\ [][(pc \in {"tools", "provider"} /\ pc' \notin {"tools", "provider"})
          => (pc' = "model" /\ returned' = NotReturned)]_vars

C14_Witness ==
  /\ Served
  /\ log.rounds_done = MaxRounds
  /\ log.responses = MaxRounds + 1

\* the value process_message returned is its error string
IsErrorReturn ==
  /\ returned.kind = "value"
  /\ returned.v.kind = "str"
  /\ Len(returned.v.v) >= 1
  /\ returned.v.v[1] = "Error processing message: "

\* model invocations of the current process_message call that have ended or
\* are in flight
Invocations ==
  log.responses + (IF log.failure # None THEN 1 ELSE 0)
                + (IF pc = "model" THEN 1 ELSE 0)

\* C15: process_message returns "Error processing message: ..." only if a
\* model invocation failed; every error text a tool call produced (unknown
\* tool, malformed arguments, provider exception m as "Error: m") is in the
\* history as a tool message with the id of its call, and each finished tool
\* round, failed calls or not, is followed by a model invocation in the same
\* process_message call.
C15_OnlyModelFailuresTerminate ==
  /\ (Served /\ IsErrorReturn) => log.failure # None
  /\ (Processing \/ Served) => Invocations = log.rounds_done + 1
  /\ \A b \in 1..Len(log.batches) :
       \A i \in 1..Len(log.batches[b].results) :
         LET result == log.batches[b].results[i] IN
         IsErrorText(result.output) =>
           \E k \in 1..Len(messages) :
             /\ messages[k].role = "tool"
             /\ messages[k].tool_call_id = Some(result.tool_call_id)
             /\ messages[k].content = Some(result.output)
  /\ (pc \in {"idle", "model"} /\ log.provider_error # None) =>
       \E k \in 1..Len(messages) :
         /\ messages[k].role = "tool"
         /\ messages[k].content = Some(<<"Error: ">> \o log.provider_error.v)

C15_Witness ==
  /\ Served
  /\ log.failure = None
  /\ \E b \in 1..Len(log.batches) :
       LET batch == log.batches[b] IN
       /\ Len(batch.results) = 2
       /\ batch.results[1].output = <<"Error: ", "network down">>
       /\ Contains(batch.results[2].output, <<"Unknown tool">>)

\* the call's name is registered and its arguments are not a JSON document
KnownWithBadArguments(tool_call) ==
  /\ tool_call.name \in DOMAIN tool_name_mapping
  /\ JsonLoads(tool_call.arguments).raised

\* C16: a tool call whose name is registered but whose arguments are not
\* valid JSON gets a result with the call's id whose output starts with
\* "Error: ", the handling goes on to the end of the batch, and the provider
\* is never dispatched for that call.  The name is resolved before the
\* arguments are parsed (an unregistered name with invalid arguments is
\* reported as an unknown tool) and the arguments are parsed before the
\* dispatch (a call in flight at the provider has valid arguments).
C16_BadArgumentsNotDispatched ==
  /\ returned.kind # "raised"
  /\ \A b \in 1..Len(log.batches) :
       LET batch == log.batches[b] IN
       \A i \in 1..Len(batch.calls) :
         /\ KnownWithBadArguments(batch.calls[i]) =>
              /\ i <= Len(batch.results)
              /\ batch.results[i].tool_call_id = batch.calls[i].id
              /\ IsErrorText(batch.results[i].output)
              /\ ~Contains(batch.results[i].output, <<"Unknown tool">>)
              /\ \A d \in 1..Len(log.dispatched) :
                   log.dispatched[d].id # batch.calls[i].id
         /\ (/\ batch.calls[i].name \notin DOMAIN tool_name_mapping
             /\ JsonLoads(batch.calls[i].arguments).raised) =>
              /\ i <= Len(batch.results)
              /\ Contains(batch.results[i].output, <<"Unknown tool">>)
  /\ pc = "provider" =>
       /\ CurrentCall.name \in DOMAIN tool_name_mapping
       /\ ~JsonLoads(CurrentCall.arguments).raised

C16_Witness ==
  \E b \in 1..Len(log.batches) :
    LET batch == log.batches[b] IN
    /\ Len(batch.calls) = 2
    /\ batch.calls[1].name \notin DOMAIN tool_name_mapping
    /\ batch.calls[1].arguments = <<"{">>
    /\ KnownWithBadArguments(batch.calls[2])
    /\ batch.results[2].output = <<"Error: ", "Expecting value">>
    /\ log.dispatched = <<>>

\* the ids of the calls dispatched to the provider, in dispatch order
DispatchedIds == [d \in 1..Len(log.dispatched) |-> log.dispatched[d].id]

RECURSIVE CallsOfBatches(_)
CallsOfBatches(b) ==
  IF b = 0 THEN <<>> ELSE CallsOfBatches(b - 1) \o log.batches[b].calls

\* every tool call handed to _handle_tool_calls so far, in list order
HandledCalls ==
  CallsOfBatches(Len(log.batches))
    \o (IF pc \in {"tools", "provider"} THEN response.tool_calls.v ELSE <<>>)

PositionOf(id) == CHOOSE k \in 1..Len(HandledCalls) : HandledCalls[k].id = id

InSeq(x, s) == \E k \in 1..Len(s) : s[k] = x

\* C17: provider calls are made one at a time, in list order, and never
\* retried: no call is dispatched twice, dispatches follow the order of the
\* tool-call lists, the call in flight at the provider is the current one
\* and every call before it has its result, and no provider call is
\* outstanding while a model invocation is in flight or between
\* process_message calls.
C17_SequentialDispatch ==
  /\ \A d1, d2 \in 1..Len(DispatchedIds) :
       d1 < d2 =>
         /\ DispatchedIds[d1] # DispatchedIds[d2]
         /\ PositionOf(DispatchedIds[d1]) < PositionOf(DispatchedIds[d2])
  /\ pc = "provider" =>
       /\ DispatchedIds[Len(DispatchedIds)] = CurrentCall.id
       /\ ~InSeq(CurrentCall.id, log.resolved)
       /\ Len(tool_responses) = idx - 1
       /\ \A d \in 1..(Len(DispatchedIds) - 1) :
            InSeq(DispatchedIds[d], log.resolved)
  /\ pc # "provider" =>
       \A d \in 1..Len(DispatchedIds) : InSeq(DispatchedIds[d], log.resolved)

C17_Witness ==
  /\ pc = "provider"
  /\ idx = 2
  /\ Len(log.dispatched) = 2
  /\ log.provider_errors = 1

IsPrefix(s, t) == Len(s) <= Len(t) /\ SubSeq(t, 1, Len(s)) = s

\* C18: the history only grows: every step of the bridge leaves the messages
\* it held in place, in order, and at most appends to them; a failed model
\* invocation removes nothing, so after it the history still ends with the
\* user message or the tool messages appended for that invocation.
C18_HistoryAppendOnly ==
  /\ [][IsPrefix(messages, messages')]_vars
  /\ [][(pc = "model" /\ log'.failure # None) => messages' = messages]_vars
  /\ []((Served /\ log.failure # None) =>
          messages[Len(messages)].role \in {"user", "tool"})

C18_Witness ==
  /\ Served
  /\ log.failure # None
  /\ log.rounds_done = 1
  /\ Len(messages) = 3
  /\ messages[1].role = "user"
  /\ messages[2].role = "assistant"
  /\ messages[3].role = "tool"

\* the position of the last listed tool that has a name and a description
\* and whose sanitised name is k
LastWithIdentifier(k) ==
  CHOOSE j \in 1..Len(available_tools) :
    /\ HasNameAndDescription(available_tools[j])
    /\ Sanitize(available_tools[j].name.v) = k
    /\ \A i \in (j + 1)..Len(available_tools) :
         ~(/\ HasNameAndDescription(available_tools[i])
           /\ Sanitize(available_tools[i].name.v) = k)

\* C19: when the listed tools are converted, two accepted tools with the same
\* sanitised name raise no error and initialize returns True; the mapping
\* has one entry per sanitised name of an accepted tool, and it holds the
\* provider name of the last listed tool with that sanitised name.
C19_CollisionKeepsLast ==
  (pc # "new" /\ log.init = "none") =>
    /\ init_result = "True"
    /\ DOMAIN tool_name_mapping =
         {Sanitize(available_tools[i].name.v) :
            i \in {j \in 1..Len(available_tools) :
                     HasNameAndDescription(available_tools[j])}}
    /\ \A k \in DOMAIN tool_name_mapping :
         tool_name_mapping[k] = available_tools[LastWithIdentifier(k)].name.v

C19_Witness ==
  /\ init_result = "True"
  /\ Len(available_tools) = 2
  /\ available_tools[1].name = Some(<<"F", "-", "U">>)
  /\ available_tools[2].name = Some(<<"F", " ", "U">>)
  /\ Len(tools) = 2
  /\ DOMAIN tool_name_mapping = {<<"f", "_", "u">>}
  /\ tool_name_mapping[<<"f", "_", "u">>] = <<"F", " ", "U">>

\* C20: the name mapping and the tool catalog of the model client are empty
\* until initialize and are written by initialize only: no step of
\* process_message, whatever the tool calls and failures, changes either.
C20_CatalogReadOnlyAfterInitialize ==
  /\ [][pc # "new" =>
          (tool_name_mapping' = tool_name_mapping /\ tools' = tools)]_vars
  /\ [](pc = "new" => (tool_name_mapping = EmptyDict /\ tools = <<>>))

C20_Witness ==
  /\ Served
  /\ log.served = MaxMessages
  /\ Len(log.dispatched) = 1
  /\ log.provider_errors = 1
  /\ Len(tools) = 1
  /\ DOMAIN tool_name_mapping = {<<"f", "_", "u">>}

\* the message is an assistant message that carries a non-empty tool-call list
IssuesCalls(msg) ==
  /\ msg.role = "assistant"
  /\ msg.tool_calls.kind = "list"
  /\ Len(msg.tool_calls.v) > 0

\* C21 as claimed: whenever process_message returns without a failed model
\* invocation, every assistant message of the history that carries a
\* non-empty tool-call list is immediately followed by one tool message per
\* call, in call order and with the call's id, and by no further tool
\* message; and every tool message is one of those that follow, in this way,
\* the assistant message that issued its call.
C21_HistoryWellFormed ==
  (Served /\ log.failure = None) =>
    \A k \in 1..Len(messages) :
      /\ IssuesCalls(messages[k]) =>
           LET calls == messages[k].tool_calls.v IN
           /\ k + Len(calls) <= Len(messages)
           /\ \A i \in 1..Len(calls) :
                /\ messages[k + i].role = "tool"
                /\ messages[k + i].tool_call_id = Some(calls[i].id)
           /\ (k + Len(calls) < Len(messages)) =>
                messages[k + Len(calls) + 1].role # "tool"
      /\ messages[k].role = "tool" =>
           \E a \in 1..(k - 1) :
             /\ IssuesCalls(messages[a])
             /\ k - a <= Len(messages[a].tool_calls.v)
             /\ messages[k].tool_call_id =
                  Some(messages[a].tool_calls.v[k - a].id)

====
